---- MODULE Spec2Model ----
(***************************************************************************)
(* Model of MagesticEquityData (src/utils.py): per-ticker price and weight *)
(* datasets are merged into a date-indexed frame, sliced by date, joined   *)
(* into multi-ticker price histories and filtered for plotting.            *)
(*                                                                         *)
(* pandas is modelled as of version >= 1.0: concat(axis=1) keeps the       *)
(* order of first appearance for indexes that are not DatetimeIndex, and   *)
(* sorts the union of unequal DatetimeIndex objects.                       *)
(***************************************************************************)
EXTENDS Integers, Sequences, FiniteSets, TLC

(* ------------------------------ bounds -------------------------------- *)
\* number of calendar days the date keys and the query dates are drawn from
NumDates == 4
\* largest number of keys of a price file / a weight file (store specification)
MaxPriceRows == 2
MaxWeightRows == 1
\* largest number of keys of a price file in the history specification
\* (its weight file holds at most one key)
HistMaxRows == 1
\* largest number of entries of a history request
MaxRequest == 2

(* ------------------------- values and helpers ------------------------- *)
\* Python None (also the empty string: both are falsy in `if start`)
None == <<>>
\* the "no value" cell; a present cell is the one-element tuple <<v>>
NaN == <<>>
Some(v) == <<v>>

Range(s) == {s[k] : k \in 1..Len(s)}
Reverse(s) == [k \in 1..Len(s) |-> s[Len(s) + 1 - k]]
Min(S) == CHOOSE x \in S : \A y \in S : x <= y
Max(S) == CHOOSE x \in S : \A y \in S : y <= x

RECURSIVE SortedSeq(_)
SortedSeq(S) == IF S = {} THEN <<>> ELSE <<Min(S)>> \o SortedSeq(S \ {Min(S)})

\* all sequences without repetition of at most n elements of S (the key
\* order of a JSON object, whose keys are unique)
DistinctSeqs(S, n) ==
  {s \in UNION {[1..k -> S] : k \in 0..n} :
     \A a, b \in 1..Len(s) : a # b => s[a] # s[b]}

(* ------------------------------ dates --------------------------------- *)
\* A "YYYY-MM-DD" string is the triple <<year, month, day>>.  DateStr(n) is
\* the n-th day counted from 2020-01-29, so the keys run across the end of
\* January.
DateStr(n) == IF n + 29 <= 31 THEN <<2020, 1, n + 29>> ELSE <<2020, 2, n + 29 - 31>>
DateStrings == {DateStr(n) : n \in 1..NumDates}

\* days of 2020 before the first of each month
DaysBeforeMonth == <<0, 31, 60, 91, 121, 152, 182, 213, 244, 274, 305, 335>>
\* pd.to_datetime / datetime.strptime(.., "%Y-%m-%d"): the day on the time
\* axis (days since 2019-12-31)
to_datetime(s) == (s[1] - 2020) * 366 + DaysBeforeMonth[s[2]] + s[3]
strptime(s) == (s[1] - 2020) * 366 + DaysBeforeMonth[s[2]] + s[3]

(* ---------------------------- data files ------------------------------ *)
\* ticker names used in requests; the last one has no data directory and
\* is not in the default allow-list
Names == <<"Value", "Quality", "NotATicker">>
NameSet == Range(Names)
TickerNo(t) == CHOOSE k \in 1..Len(Names) : Names[k] = t

\* src/utils.py:18-21
DefaultTickers ==
  <<"Dividend", "Value", "LowVol", "MarketCap", "Momentum", "Quality", "Value">>

NoFile == [exists |-> FALSE, prices |-> <<>>, weights |-> <<>>]
\* the scalar stored under key k of ticker t's price file, and the weight of
\* the constituent stored under key k of its weight file (one constituent,
\* listed under every key, so that the weight frame's index is the key order)
Quote(t, k) == 100 * TickerNo(t) + to_datetime(k)
Weight(t, k) == to_datetime(k)
Dataset(t, pk, wk) ==
  [exists  |-> TRUE,
   prices  |-> [j \in 1..Len(pk) |-> [key |-> pk[j], value |-> Quote(t, pk[j])]],
   weights |-> [j \in 1..Len(wk) |-> [key |-> wk[j], value |-> Weight(t, wk[j])]]]
Datasets(t, maxP, maxW) ==
  {Dataset(t, pk, wk) : pk \in DistinctSeqs(DateStrings, maxP),
                        wk \in DistinctSeqs(DateStrings, maxW)}

(* ----------------------------- outcomes ------------------------------- *)
\* a DataFrame: column names, the index (days) and one row of cells per
\* index entry
Frame(c, i, r) == [columns |-> c, index |-> i, rows |-> r]
EmptyFrame == Frame(<<>>, <<>>, <<>>)
Ok(df) == [exc |-> "none", msg |-> <<>>, df |-> df]
Raise(e, m) == [exc |-> e, msg |-> m, df |-> EmptyFrame]

\* positions lo..hi-1 (0-based, Python slice lo:hi) of a frame
ISlice(df, lo, hi) ==
  IF lo >= hi THEN Frame(df.columns, <<>>, <<>>)
  ELSE Frame(df.columns, SubSeq(df.index, lo + 1, hi), SubSeq(df.rows, lo + 1, hi))

(* ------------------------ pandas index methods ------------------------ *)
Contains(idx, d) == \E k \in 1..Len(idx) : idx[k] = d
\* 0-based position of a label of a unique index
get_loc(idx, d) == (CHOOSE k \in 1..Len(idx) : idx[k] = d) - 1
is_monotonic_increasing(idx) == \A k \in 1..Len(idx) - 1 : idx[k] <= idx[k + 1]
is_monotonic_decreasing(idx) == \A k \in 1..Len(idx) - 1 : idx[k] >= idx[k + 1]

\* numpy's binary search, which never checks that the array is sorted
RECURSIVE binsearch(_, _, _, _, _)
binsearch(a, v, side, lo, hi) ==
  IF lo >= hi THEN lo
  ELSE LET mid == lo + (hi - lo) \div 2
       IN IF (side = "left" /\ a[mid + 1] < v) \/ (side = "right" /\ a[mid + 1] <= v)
          THEN binsearch(a, v, side, mid + 1, hi)
          ELSE binsearch(a, v, side, lo, mid)
searchsorted(idx, v, side) == binsearch(idx, v, side, 0, Len(idx))

\* Index.get_slice_bound: <<position>>, or <<>> for KeyError (a label that
\* is absent from an index that is not monotonic)
get_slice_bound(idx, label, side) ==
  IF Contains(idx, label)
  THEN <<get_loc(idx, label) + (IF side = "left" THEN 0 ELSE 1)>>
  ELSE IF is_monotonic_increasing(idx) THEN <<searchsorted(idx, label, side)>>
  ELSE IF is_monotonic_decreasing(idx)
  THEN <<Len(idx) - searchsorted(Reverse(idx), label,
                                 IF side = "left" THEN "right" ELSE "left")>>
  ELSE <<>>

\* df.loc[start:stop] with Timestamp labels; start, stop are <<>> (absent)
\* or <<day>>
LocSlice(df, start, stop) ==
  LET lo == IF start = <<>> THEN <<0>> ELSE get_slice_bound(df.index, start[1], "left")
      hi == IF stop = <<>> THEN <<Len(df.index)>>
            ELSE get_slice_bound(df.index, stop[1], "right")
  IN IF lo = <<>> \/ hi = <<>> THEN Raise("KeyError", <<>>)
     ELSE Ok(ISlice(df, lo[1], hi[1]))

(* ------------------------- process_etf_data --------------------------- *)
Keys(d) == [j \in 1..Len(d) |-> d[j].key]
\* the cell of dict-of-rows d under key k: its value, or NaN when k is absent
Cell(d, k) ==
  IF \E j \in 1..Len(d) : d[j].key = k
  THEN Some(d[CHOOSE j \in 1..Len(d) : d[j].key = k].value)
  ELSE NaN

\* the index of pd.concat([a, b], axis=1) for two indexes of strings
\* (sort=False): the labels in order of first appearance
UnionFirstSeen(a, b) == a \o SelectSeq(b, LAMBDA k : ~Contains(a, k))

\* lines 43-55 for parsed file contents ds
Combine(ds) ==
  LET idx  == UnionFirstSeen(Keys(ds.prices), Keys(ds.weights))
      cols == <<"Close Price">> \o (IF Len(ds.weights) > 0 THEN <<"Constituent">> ELSE <<>>)
  IN Frame(cols,
           [j \in 1..Len(idx) |-> to_datetime(idx[j])],
           [j \in 1..Len(idx) |->
              <<Cell(ds.prices, idx[j])>> \o
              (IF Len(ds.weights) > 0 THEN <<Cell(ds.weights, idx[j])>> ELSE <<>>)])

process_etf_data(fs, ticker) ==
  IF ~fs[ticker].exists THEN Raise("FileNotFoundError", <<>>)
  ELSE Ok(Combine(fs[ticker]))

(* ------------------------- filter_df_by_date -------------------------- *)
MsgOrder == "The start date must be strictly earlier than the end date."
MsgRange == "The dates must be within the range of the DataFrame's index."

\* variant: the test of line 77 written with > (equal dates pass)
InvalidOrder_strict(start_date, end_date) == start_date > end_date

\* line 77
InvalidOrder(start_date, end_date) == start_date >= end_date

\* variant: the lower test of line 81 written with <=
OutOfRange_startIncl(idx, start_date, end_date) ==
  /\ Len(idx) > 0
  /\ \/ start_date <= Min(Range(idx))
     \/ end_date > Max(Range(idx))

\* line 81; min() and max() of an empty index are NaT, which compares False
OutOfRange(idx, start_date, end_date) ==
  /\ Len(idx) > 0
  /\ \/ start_date < Min(Range(idx))
     \/ end_date > Max(Range(idx))

\* idx[p] for a Python position p: <<label>>, or <<>> for IndexError
PyItem(idx, p) ==
  IF 0 <= p /\ p < Len(idx) THEN <<idx[p + 1]>>
  ELSE IF p < 0 /\ 0 - Len(idx) <= p THEN <<idx[Len(idx) + p + 1]>>
  ELSE <<>>

\* variant: the start resolved like the end, to the row date before it
ResolveStart_back(idx, start_date) ==
  IF ~Contains(idx, start_date)
  THEN PyItem(idx, searchsorted(idx, start_date, "right") - 1)
  ELSE <<start_date>>

\* lines 85-86
ResolveStart(idx, start_date) ==
  IF ~Contains(idx, start_date)
  THEN PyItem(idx, searchsorted(idx, start_date, "left"))
  ELSE <<start_date>>

\* variant: line 89 without the "- 1"
ResolveEnd_noStepBack(idx, end_date) ==
  IF ~Contains(idx, end_date)
  THEN PyItem(idx, searchsorted(idx, end_date, "right"))
  ELSE <<end_date>>

\* lines 88-89
ResolveEnd(idx, end_date) ==
  IF ~Contains(idx, end_date)
  THEN PyItem(idx, searchsorted(idx, end_date, "right") - 1)
  ELSE <<end_date>>

filter_df_by_date(df, start, end) ==
  LET start_date == to_datetime(start)
      end_date   == to_datetime(end)
  IN IF InvalidOrder(start_date, end_date) THEN Raise("ValueError", <<MsgOrder>>)
     ELSE IF OutOfRange(df.index, start_date, end_date)
     THEN Raise("ValueError", <<MsgRange>>)
     ELSE LET s == ResolveStart(df.index, start_date)
          IN IF s = <<>> THEN Raise("IndexError", <<>>)
             ELSE LET e == ResolveEnd(df.index, end_date)
                  IN IF e = <<>> THEN Raise("IndexError", <<>>)
                     ELSE LocSlice(df, s, e)

(* -------------------- retrieve_etf_data, download --------------------- *)
retrieve_etf_data(fs, ticker, start, end) ==
  LET r == process_etf_data(fs, ticker)
  IN IF r.exc # "none" THEN r ELSE filter_df_by_date(r.df, start, end)

download(fs, ticker, start, end) ==
  LET r == process_etf_data(fs, ticker)
  IN IF r.exc # "none" THEN r
     ELSE IF start # None /\ end # None THEN filter_df_by_date(r.df, start, end)
     ELSE IF start # None THEN LocSlice(r.df, <<to_datetime(start)>>, <<>>)
     ELSE IF end # None THEN LocSlice(r.df, <<>>, <<to_datetime(end)>>)
     ELSE r

(* ----------------------- plot_etf_prices, plotter --------------------- *)
\* lines 197 and 200: the pairs that pass the test, then `zip(*pairs)`
\* unpacked into two names, which raises ValueError when no pair is left
KeepFrom(pts, start_date) == SelectSeq(pts, LAMBDA p : p.date >= start_date)
KeepUntil(pts, end_date) == SelectSeq(pts, LAMBDA p : p.date <= end_date)
MsgUnpack == "not enough values to unpack (expected 2, got 0)"

\* the (date, value) series handed to plt.plot, as a one-column frame
Plotted(pts) ==
  Frame(<<"Prices">>, [j \in 1..Len(pts) |-> pts[j].date],
        [j \in 1..Len(pts) |-> <<Some(pts[j].value)>>])

plot_etf_prices(etf_prices, start, end) ==
  LET pts0 == [j \in 1..Len(etf_prices) |->
                 [date |-> strptime(etf_prices[j].key), value |-> etf_prices[j].value]]
      pts1 == IF start # None THEN KeepFrom(pts0, strptime(start)) ELSE pts0
      pts2 == IF end # None THEN KeepUntil(pts1, strptime(end)) ELSE pts1
  IN IF start # None /\ pts1 = <<>> THEN Raise("ValueError", <<MsgUnpack>>)
     ELSE IF end # None /\ pts2 = <<>> THEN Raise("ValueError", <<MsgUnpack>>)
     ELSE Ok(Plotted(pts2))

plotter(fs, ticker, start, end) ==
  IF ~fs[ticker].exists THEN Raise("FileNotFoundError", <<>>)
  ELSE plot_etf_prices(fs[ticker].prices, start, end)

(* ------------------------------ history ------------------------------ *)
MsgInvalid == "The following tickers are invalid: "

\* variant: only the first invalid ticker is collected
invalid_tickers_firstFound(request, allowed) ==
  LET bad == SelectSeq(request, LAMBDA t : ~(\E k \in 1..Len(allowed) : allowed[k] = t))
  IN IF bad = <<>> THEN <<>> ELSE <<bad[1]>>

\* variant: only the first entry of the request is checked
invalid_tickers_headOnly(request, allowed) ==
  IF request # <<>> /\ ~(\E k \in 1..Len(allowed) : allowed[k] = request[1])
  THEN <<request[1]>>
  ELSE <<>>

\* line 160
invalid_tickers(request, allowed) ==
  SelectSeq(request, LAMBDA t : ~(\E k \in 1..Len(allowed) : allowed[k] = t))

\* sep.join(parts), as the sequence of its pieces
RECURSIVE Join(_, _)
Join(parts, sep) ==
  IF Len(parts) = 0 THEN <<>>
  ELSE IF Len(parts) = 1 THEN parts
  ELSE <<parts[1], sep>> \o Join(Tail(parts), sep)

\* line 172: df[['Close Price']].rename(columns={'Close Price': ticker})
PriceColumn(df, ticker) ==
  Frame(<<ticker>>, df.index, [j \in 1..Len(df.rows) |-> <<df.rows[j][1]>>])

\* the row of df at label d, or a row of NaN when df has no such label
RowAt(df, d) ==
  IF Contains(df.index, d) THEN df.rows[get_loc(df.index, d) + 1]
  ELSE [k \in 1..Len(df.columns) |-> NaN]

\* the index of pd.concat([a, b], axis=1) for DatetimeIndex objects:
\* Index.union(sort=None), which returns one side untouched when the other
\* is empty or equal, and the sorted union otherwise.  The initial
\* pd.DataFrame() is dropped by concat as an empty object, which is the
\* case Len(a) = 0 here.
UnionIndex(a, b) ==
  IF Len(b) = 0 \/ a = b THEN a
  ELSE IF Len(a) = 0 THEN b
  ELSE SortedSeq(Range(a) \cup Range(b))

\* line 175
concat_axis1(a, b) ==
  LET idx == UnionIndex(a.index, b.index)
  IN Frame(a.columns \o b.columns, idx,
           [j \in 1..Len(idx) |-> RowAt(a, idx[j]) \o RowAt(b, idx[j])])

(* --------------------------- state machine ---------------------------- *)
VARIABLES
  tickers,          \* self.tickers, the allow-list
  files,            \* the data directory: ticker -> parsed price and weight files
  pc,               \* "idle", "loop" (inside history's for loop) or "done"
  call,             \* the operation called last and its arguments
  inp,              \* the frame handed to filter_df_by_date by that call
  ret,              \* what the call returned or raised
  opened,           \* the tickers whose files the call has opened, in order
  concatenated_df,  \* history's accumulator
  i                 \* history's position in the request (1-based)

vars == <<tickers, files, pc, call, inp, ret, opened, concatenated_df, i>>

NoCall == [op |-> "none", ticker |-> "", request |-> <<>>, start |-> None, end |-> None]
Running == [exc |-> "running", msg |-> <<>>, df |-> EmptyFrame]
Bounds == DateStrings \cup {None}
Requests == UNION {[1..n -> NameSet] : n \in 0..MaxRequest}

\* the frame read by process_etf_data, or the empty frame when it raised
Loaded(fs, ticker) == process_etf_data(fs, ticker).df

\* one ticker has a data directory
Init ==
  /\ tickers = DefaultTickers
  /\ files \in {[t \in NameSet |-> IF t = "Value" THEN ds ELSE NoFile] :
                  ds \in Datasets("Value", MaxPriceRows, MaxWeightRows)}
  /\ pc = "idle"
  /\ call = NoCall
  /\ inp = EmptyFrame
  /\ ret = Ok(EmptyFrame)
  /\ opened = <<>>
  /\ concatenated_df = EmptyFrame
  /\ i = 0

ProcessEtfData(t) ==
  /\ pc = "idle"
  /\ call' = [op |-> "process_etf_data", ticker |-> t, request |-> <<>>,
              start |-> None, end |-> None]
  /\ inp' = EmptyFrame
  /\ ret' = process_etf_data(files, t)
  /\ opened' = <<t>>
  /\ pc' = "done"
  /\ UNCHANGED <<tickers, files, concatenated_df, i>>

\* the caller hands the frame it has just loaded to filter_df_by_date
FilterDfByDate(s, e) ==
  /\ pc = "done"
  /\ call.op = "process_etf_data"
  /\ ret.exc = "none"
  /\ call' = [op |-> "filter_df_by_date", ticker |-> "", request |-> <<>>,
              start |-> s, end |-> e]
  /\ inp' = ret.df
  /\ ret' = filter_df_by_date(ret.df, s, e)
  /\ opened' = <<>>
  /\ UNCHANGED <<tickers, files, pc, concatenated_df, i>>

\* the caller drops the result: every call builds its frames afresh and
\* nothing of one call is left for the next
Discard ==
  /\ pc = "done"
  /\ pc' = "idle"
  /\ call' = NoCall
  /\ inp' = EmptyFrame
  /\ ret' = Ok(EmptyFrame)
  /\ opened' = <<>>
  /\ concatenated_df' = EmptyFrame
  /\ i' = 0
  /\ UNCHANGED <<tickers, files>>

RetrieveEtfData(t, s, e) ==
  /\ pc = "idle"
  /\ call' = [op |-> "retrieve_etf_data", ticker |-> t, request |-> <<>>,
              start |-> s, end |-> e]
  /\ inp' = Loaded(files, t)
  /\ ret' = retrieve_etf_data(files, t, s, e)
  /\ opened' = <<t>>
  /\ pc' = "done"
  /\ UNCHANGED <<tickers, files, concatenated_df, i>>

Download(t, s, e) ==
  /\ pc = "idle"
  /\ call' = [op |-> "download", ticker |-> t, request |-> <<>>,
              start |-> s, end |-> e]
  /\ inp' = IF s # None /\ e # None THEN Loaded(files, t) ELSE EmptyFrame
  /\ ret' = download(files, t, s, e)
  /\ opened' = <<t>>
  /\ pc' = "done"
  /\ UNCHANGED <<tickers, files, concatenated_df, i>>

Plotter(t, s, e) ==
  /\ pc = "idle"
  /\ call' = [op |-> "plotter", ticker |-> t, request |-> <<>>,
              start |-> s, end |-> e]
  /\ inp' = EmptyFrame
  /\ ret' = plotter(files, t, s, e)
  /\ opened' = <<t>>
  /\ pc' = "done"
  /\ UNCHANGED <<tickers, files, concatenated_df, i>>

Next ==
  \/ \E t \in NameSet : ProcessEtfData(t)
  \/ \E s, e \in DateStrings : FilterDfByDate(s, e)
  \/ \E t \in NameSet, s, e \in DateStrings : RetrieveEtfData(t, s, e)
  \/ \E t \in NameSet, s, e \in Bounds : Download(t, s, e)
  \/ \E t \in NameSet, s, e \in Bounds : Plotter(t, s, e)
  \/ Discard

Spec == Init /\ [][Next]_vars

(* ------------------------ history, step by step ----------------------- *)
\* the second ticker's files hold the first one's keys one day later, so
\* that the two tables overlap without coinciding
NextDay(k) == CHOOSE d \in {DateStr(n) : n \in 1..NumDates + 1} :
                to_datetime(d) = to_datetime(k) + 1
Shifted(t, ds) == Dataset(t, [j \in 1..Len(ds.prices) |-> NextDay(ds.prices[j].key)],
                          [j \in 1..Len(ds.weights) |-> NextDay(ds.weights[j].key)])

InitHistory ==
  /\ tickers \in {DefaultTickers, <<"Value">>}
  /\ files \in {[t \in NameSet |-> IF t = "Value" THEN ds
                                   ELSE IF t = "Quality" THEN Shifted("Quality", ds)
                                   ELSE NoFile] :
                  ds \in Datasets("Value", HistMaxRows, 1)}
  /\ pc = "idle"
  /\ call = NoCall
  /\ inp = EmptyFrame
  /\ ret = Ok(EmptyFrame)
  /\ opened = <<>>
  /\ concatenated_df = EmptyFrame
  /\ i = 0

\* lines 159-165
HistoryCall(request, s, e) ==
  /\ pc = "idle"
  /\ call' = [op |-> "history", ticker |-> "", request |-> request,
              start |-> s, end |-> e]
  /\ inp' = EmptyFrame
  /\ opened' = <<>>
  /\ concatenated_df' = EmptyFrame
  /\ LET bad == invalid_tickers(request, tickers)
     IN IF bad # <<>>
        THEN /\ ret' = Raise("ValueError", <<MsgInvalid>> \o Join(bad, ", "))
             /\ pc' = "done"
             /\ i' = 0
        ELSE /\ ret' = Running
             /\ pc' = "loop"
             /\ i' = 1
  /\ UNCHANGED <<tickers, files>>

\* lines 167-175, one iteration
HistoryIter ==
  /\ pc = "loop"
  /\ i <= Len(call.request)
  /\ LET ticker == call.request[i]
         r == download(files, ticker, call.start, call.end)
     IN /\ opened' = Append(opened, ticker)
        /\ IF r.exc # "none"
           THEN /\ ret' = r
                /\ pc' = "done"
                /\ concatenated_df' = EmptyFrame
                /\ i' = 0
           ELSE /\ concatenated_df' = concat_axis1(concatenated_df, PriceColumn(r.df, ticker))
                /\ i' = i + 1
                /\ UNCHANGED <<ret, pc>>
  /\ UNCHANGED <<tickers, files, call, inp>>

\* line 177
HistoryReturn ==
  /\ pc = "loop"
  /\ i > Len(call.request)
  /\ ret' = Ok(concatenated_df)
  /\ pc' = "done"
  /\ UNCHANGED <<tickers, files, call, inp, opened, concatenated_df, i>>

NextHistory ==
  \/ \E request \in Requests, s, e \in Bounds : HistoryCall(request, s, e)
  \/ HistoryIter
  \/ HistoryReturn
  \/ Discard

SpecHistory == InitHistory /\ [][NextHistory]_vars

(* ------------------------------ properties ---------------------------- *)
\* the call has run filter_df_by_date on the frame inp
Filtered ==
  /\ pc = "done"
  /\ \/ call.op = "filter_df_by_date"
     \/ call.op = "retrieve_etf_data" /\ files[call.ticker].exists
     \/ call.op = "download" /\ call.start # None /\ call.end # None
        /\ files[call.ticker].exists

\* an AlignedTable: strictly ascending dates (hence no date twice)
IsAligned(df) == \A k \in 1..Len(df.index) - 1 : df.index[k] < df.index[k + 1]

StartDay == to_datetime(call.start)
EndDay == to_datetime(call.end)

\* the rows of df whose date passes test, in df's order
RowsWhere(df, test(_)) ==
  LET pos == SelectSeq([k \in 1..Len(df.index) |-> k], LAMBDA k : test(df.index[k]))
  IN Frame(df.columns, [j \in 1..Len(pos) |-> df.index[pos[j]]],
           [j \in 1..Len(pos) |-> df.rows[pos[j]]])

\* the filter's arguments lie within a non-empty aligned frame, start < end
InSpan ==
  /\ Filtered
  /\ IsAligned(inp)
  /\ Len(inp.index) > 0
  /\ StartDay < EndDay
  /\ Min(Range(inp.index)) <= StartDay
  /\ EndDay <= Max(Range(inp.index))

\* C1: on an aligned table with min <= start < end <= max, filter_df_by_date
\* returns exactly the rows from the smallest row date >= start to the
\* largest row date <= end, both included.
C1_FilterReturnsSnappedRun ==
  InSpan =>
    LET lo == Min({d \in Range(inp.index) : d >= StartDay})
        hi == Max({d \in Range(inp.index) : d <= EndDay})
    IN ret = Ok(RowsWhere(inp, LAMBDA d : lo <= d /\ d <= hi))

\* a start between two row dates was snapped forward and two or more rows
\* were returned
C1_Witness ==
  /\ InSpan
  /\ ~Contains(inp.index, StartDay)
  /\ ret.exc = "none"
  /\ Len(ret.df.index) >= 2
  /\ Len(ret.df.index) < Len(inp.index)

InGap ==
  /\ Filtered
  /\ IsAligned(inp)
  /\ StartDay < EndDay
  /\ \E k \in 1..Len(inp.index) - 1 :
       inp.index[k] < StartDay /\ EndDay < inp.index[k + 1]

\* C3: when start < end lie strictly between two consecutive row dates,
\* filter_df_by_date returns a frame without rows and raises nothing.
C3_GapQueryIsEmpty ==
  InGap => ret.exc = "none" /\ ret.df.index = <<>> /\ ret.df.rows = <<>>

\* such a query was answered
C3_Witness == InGap /\ ret.exc = "none" /\ ret.df.columns = inp.columns

\* the filter succeeded with start and end that are row dates of inp
OnRowDates ==
  /\ Filtered
  /\ IsAligned(inp)
  /\ Contains(inp.index, StartDay)
  /\ Contains(inp.index, EndDay)
  /\ ret.exc = "none"

\* C8: when filter_df_by_date succeeds on an aligned table with start and
\* end that are row dates, filtering its result again with the same start
\* and end succeeds and returns the same frame.
C8_FilterIdempotentOnRowDates ==
  OnRowDates => filter_df_by_date(ret.df, call.start, call.end) = ret

\* the first application dropped rows, so the second one runs on another frame
C8_Witness == OnRowDates /\ Len(ret.df.index) < Len(inp.index)

\* the days of all keys of both files of ticker t
FileDays(t) ==
  {to_datetime(k) : k \in Range(Keys(files[t].prices)) \cup Range(Keys(files[t].weights))}

\* C4: process_etf_data returns rows in strictly ascending date order, no
\* date twice, one row for each date of either file, whatever the key order
\* of the files and whether or not they share dates.
C4_LoadAscendingUnion ==
  (pc = "done" /\ call.op = "process_etf_data" /\ ret.exc = "none") =>
    /\ IsAligned(ret.df)
    /\ Range(ret.df.index) = FileDays(call.ticker)

\* the part of C4 that the code keeps: one row per date of either file
LoadHoldsEveryDateOnce ==
  (pc = "done" /\ call.op = "process_etf_data" /\ ret.exc = "none") =>
    /\ Range(ret.df.index) = FileDays(call.ticker)
    /\ Len(ret.df.index) = Cardinality(FileDays(call.ticker))

\* download was called with a start and no end on a ticker that has files
StartOnly ==
  /\ pc = "done"
  /\ call.op = "download"
  /\ call.start # None
  /\ call.end = None
  /\ files[call.ticker].exists

\* C5: download with only start returns exactly the rows of the loaded table
\* whose date is >= start and never raises.
C5_DownloadFromStart ==
  StartOnly =>
    ret = Ok(RowsWhere(Loaded(files, call.ticker), LAMBDA d : d >= StartDay))

\* C5 where the loaded table is in ascending order
DownloadFromStartOnAscending ==
  (StartOnly /\ IsAligned(Loaded(files, call.ticker))) =>
    ret = Ok(RowsWhere(Loaded(files, call.ticker), LAMBDA d : d >= StartDay))

\* plotter ran on a ticker whose only dates are those of its price file
Plotted1 ==
  /\ pc = "done"
  /\ call.op = "plotter"
  /\ files[call.ticker].exists
  /\ files[call.ticker].weights = <<>>

InBounds(d) ==
  /\ call.start # None => strptime(call.start) <= d
  /\ call.end # None => d <= strptime(call.end)

\* C9: the plot's filtering keeps exactly the points with start <= date <=
\* end (each bound only when given) and yields the same set of dates as
\* download for the same series and bounds, also when both bounds are given
\* and when no point lies within them.
C9_PlotFilterMatchesDownload ==
  Plotted1 =>
    LET d == download(files, call.ticker, call.start, call.end)
    IN /\ ret.exc = "none"
       /\ ret.df.index =
            SelectSeq([j \in 1..Len(files[call.ticker].prices) |->
                         strptime(files[call.ticker].prices[j].key)], InBounds)
       /\ d.exc = "none"
       /\ Range(d.df.index) = Range(ret.df.index)

\* the part of C9 that the code keeps: when it raises nothing, the plotted
\* dates are exactly the dates within the bounds
PlotKeepsDatesInBounds ==
  (Plotted1 /\ ret.exc = "none") =>
    ret.df.index =
      SelectSeq([j \in 1..Len(files[call.ticker].prices) |->
                   strptime(files[call.ticker].prices[j].key)], InBounds)

(* ------------------------- properties of history ---------------------- *)
Allowed(t) == \E k \in 1..Len(tickers) : tickers[k] = t
SomeInvalid == \E k \in 1..Len(call.request) : ~Allowed(call.request[k])
IsValidationError(r) ==
  r.exc = "ValueError" /\ Len(r.msg) > 0 /\ r.msg[1] = MsgInvalid

\* C6: history raises the ValueError about invalid tickers exactly when some
\* requested ticker is not in the allow-list, and its message names every
\* requested ticker that is not in the allow-list.
C6_ValidationErrorNamesAllInvalid ==
  (pc = "done" /\ call.op = "history") =>
    /\ SomeInvalid <=> IsValidationError(ret)
    /\ SomeInvalid =>
         \A k \in 1..Len(call.request) :
           ~Allowed(call.request[k]) => call.request[k] \in Range(Tail(ret.msg))

\* a request with two different invalid tickers was rejected
C6_Witness ==
  /\ pc = "done"
  /\ call.op = "history"
  /\ IsValidationError(ret)
  /\ \E a, b \in 1..Len(call.request) :
       /\ call.request[a] # call.request[b]
       /\ ~Allowed(call.request[a])
       /\ ~Allowed(call.request[b])

\* C10: in a history call with an invalid ticker no file is ever opened and
\* no frame is built or returned: the call ends with the ValueError.
C10_ValidationBeforeAnyLoad ==
  (call.op = "history" /\ SomeInvalid) =>
    /\ opened = <<>>
    /\ concatenated_df = EmptyFrame
    /\ pc = "done"
    /\ IsValidationError(ret)
    /\ ret.df = EmptyFrame

\* a request whose invalid ticker follows a valid one that has files
C10_Witness ==
  /\ pc = "done"
  /\ call.op = "history"
  /\ Len(call.request) >= 2
  /\ Allowed(call.request[1])
  /\ files[call.request[1]].exists
  /\ ~Allowed(call.request[2])
  /\ IsValidationError(ret)

\* the slice download returns for the k-th requested ticker
SliceOf(k) == download(files, call.request[k], call.start, call.end).df

\* C7: history returns one column per requested entry, in request order and
\* named after the ticker, the rows being the union of the dates of all the
\* slices in ascending order, each cell the ticker's price at that date or
\* NaN when its slice has no such date.
C7_HistoryIsAscendingUnion ==
  (pc = "done" /\ call.op = "history" /\ ret.exc = "none") =>
    /\ ret.df.columns = call.request
    /\ ret.df.index =
         SortedSeq(UNION {Range(SliceOf(k).index) : k \in 1..Len(call.request)})
    /\ \A j \in 1..Len(ret.df.index), k \in 1..Len(call.request) :
         ret.df.rows[j][k] = RowAt(PriceColumn(SliceOf(k), call.request[k]),
                                   ret.df.index[j])[1]

\* C7 where every requested ticker's loaded table is in ascending order
HistoryOnAscendingLoads ==
  (/\ pc = "done" /\ call.op = "history" /\ ret.exc = "none"
   /\ \A k \in 1..Len(call.request) : IsAligned(Loaded(files, call.request[k]))) =>
    /\ ret.df.columns = call.request
    /\ ret.df.index =
         SortedSeq(UNION {Range(SliceOf(k).index) : k \in 1..Len(call.request)})
    /\ \A j \in 1..Len(ret.df.index), k \in 1..Len(call.request) :
         ret.df.rows[j][k] = RowAt(PriceColumn(SliceOf(k), call.request[k]),
                                   ret.df.index[j])[1]

====
